---- MODULE Spec2Model ----
(***************************************************************************)
(* Model of telegram_cars_bot.py: the cart store (carts.json), the inline  *)
(* keyboards, the callback router, the cart view and the checkout.         *)
(*                                                                         *)
(* Text.  A Python str is modelled as a sequence of segments, the pieces   *)
(* between the "|" delimiters, so that str.split("|") and the f-strings    *)
(* that build callback data are computed, not assumed.  A segment is a     *)
(* sequence of atoms (TLA+ strings without "|"); a label of the catalog is *)
(* a one-atom segment, the empty str is the empty segment.  Persian labels *)
(* are transliterated.                                                     *)
(***************************************************************************)
EXTENDS Integers, Sequences, FiniteSets, TLC

\* ------------------------------------------------------------------ bounds
\* a cart holds at most MaxItems items: add_item is not offered beyond it
MaxItems == 2

\* ------------------------------------------------------------------- text
\* one-segment str made of one atom
S(a) == <<<<a>>>>

\* a + b for two str values: the last segment of a runs into the first of b
Concat(a, b) ==
    IF a = <<>> THEN b
    ELSE IF b = <<>> THEN a
    ELSE SubSeq(a, 1, Len(a) - 1) \o <<a[Len(a)] \o b[1]>> \o SubSeq(b, 2, Len(b))

\* "|".join of several str values
RECURSIVE JoinBar(_)
JoinBar(strs) ==
    IF strs = <<>> THEN <<>>
    ELSE IF Len(strs) = 1 THEN strs[1]
    ELSE strs[1] \o JoinBar(Tail(strs))

\* data.split("|"): every segment becomes a str of its own
SplitAll(data) == [i \in 1..Len(data) |-> <<data[i]>>]

\* data.split("|", k): at most k cuts, the rest stays joined
SplitMax(data, k) ==
    IF Len(data) <= k + 1 THEN SplitAll(data)
    ELSE [i \in 1..(k + 1) |->
            IF i <= k THEN <<data[i]>> ELSE SubSeq(data, k + 1, Len(data))]

\* data.startswith(prefix + "|"), prefix a single atom
StartsWithBar(data, prefix) == Len(data) >= 2 /\ data[1] = <<prefix>>

\* str(n) / f"{n}" for the integers the bot formats
str_table ==
    (1 :> "1") @@ (2 :> "2") @@ (100 :> "100") @@ (120 :> "120") @@
    (185 :> "185") @@ (195 :> "195") @@ (200 :> "200") @@ (205 :> "205") @@
    (250 :> "250")
str(n) == S(str_table[n])

\* int(s): decimal literals parse, also with leading zeros; anything else raises
int_table ==
    ("1" :> 1) @@ ("2" :> 2) @@ ("100" :> 100) @@ ("120" :> 120) @@
    ("185" :> 185) @@ ("195" :> 195) @@ ("200" :> 200) @@ ("205" :> 205) @@
    ("250" :> 250) @@ ("0185" :> 185) @@ ("0120" :> 120)
int(s) ==
    IF Len(s) = 1 /\ Len(s[1]) = 1 /\ s[1][1] \in DOMAIN int_table
    THEN [exc |-> "none", val |-> int_table[s[1][1]]]
    ELSE [exc |-> "ValueError", val |-> 0]

\* ---------------------------------------------------------------- catalog
\* CARS, an ordered dict: its keys in insertion order, and its values
CARS_keys == <<"Pride", "Peugeot", "Samand">>
CARS ==
    ("Pride" :> <<"111", "131", "141">>) @@
    ("Peugeot" :> <<"405", "Pars", "207">>) @@
    ("Samand" :> <<"Soren", "SorenPlus">>)
\* CARS.get(car_name, [])
CARS_get(car_name) ==
    IF Len(car_name) = 1 /\ Len(car_name[1]) = 1 /\ car_name[1][1] \in DOMAIN CARS
    THEN CARS[car_name[1][1]] ELSE <<>>

\* TIRES_PRICES: origin -> ordered (size, price) pairs
TIRES_PRICES ==
    ("foreign" :> << <<"185", 185>>, <<"195", 195>>, <<"205", 205>> >>) @@
    ("domestic" :> << <<"185", 185>>, <<"195", 195>>, <<"205", 205>> >>)
\* TIRES_PRICES.get(tire_type, {}).items()
TIRES_PRICES_get(tire_type) ==
    IF Len(tire_type) = 1 /\ Len(tire_type[1]) = 1 /\ tire_type[1][1] \in DOMAIN TIRES_PRICES
    THEN TIRES_PRICES[tire_type[1][1]] ELSE <<>>

OTHER_PARTS_PRICES ==
    ("lightback_foreign" :> 205) @@ ("mirror" :> 120) @@
    ("front_glass" :> 250) @@ ("rear_glass" :> 200)
\* OTHER_PARTS_PRICES.get(part_key, default)
OTHER_PARTS_PRICES_get(part_key, default) ==
    IF Len(part_key) = 1 /\ Len(part_key[1]) = 1 /\ part_key[1][1] \in DOMAIN OTHER_PARTS_PRICES
    THEN OTHER_PARTS_PRICES[part_key[1][1]] ELSE default

\* ------------------------------------------------------------- cart store
\* the users (Telegram ids) and the administrator's chat
Users == {1, 2}

\* a cart document: a mapping from str keys to carts
EmptyDoc == [k \in {} |-> [items |-> <<>>]]
DocWith(doc, key, cart) ==
    [k \in DOMAIN doc \cup {key} |-> IF k = key THEN cart ELSE doc[k]]
DocWithout(doc, key) == [k \in DOMAIN doc \ {key} |-> doc[k]]

\* JSON text, as a tree of its values: a string keeps its characters, a
\* number is written as its decimal digits, an array lists its elements and
\* an object lists its members (name, value) in the order they were written
JString(chars) == [json |-> "string", chars |-> chars]
JNumber(n) == [json |-> "number", digits |-> str_table[n]]
JArray(elems) == [json |-> "array", elems |-> elems]
JObject(members) == [json |-> "object", members |-> members]

\* the keys of a dict in the order the dict iterates them
RECURSIVE KeysInOrder(_)
KeysInOrder(keys) ==
    IF keys = {} THEN <<>>
    ELSE LET k == CHOOSE k \in keys : TRUE
         IN  <<k>> \o KeysInOrder(keys \ {k})

\* mutant: the last field of an item is not written
json_dump_item_short(item) ==
    JObject(<< <<"car", JString(item.car)>>, <<"model", JString(item.model)>>,
               <<"name", JString(item.name)>>, <<"meta", JString(item.meta)>>,
               <<"price", JNumber(item.price)>> >>)

\* json.dump of an item dict: its six fields in the order add_item wrote them
json_dump_item(item) ==
    JObject(<< <<"car", JString(item.car)>>, <<"model", JString(item.model)>>,
               <<"name", JString(item.name)>>, <<"meta", JString(item.meta)>>,
               <<"price", JNumber(item.price)>>, <<"qty", JNumber(item.qty)>> >>)

RECURSIVE json_dump_items(_)
json_dump_items(items) ==
    IF items = <<>> THEN <<>>
    ELSE <<json_dump_item(Head(items))>> \o json_dump_items(Tail(items))

\* json.dump of a cart: {"items": [...]}
json_dump_cart(cart) ==
    JObject(<< <<"items", JArray(json_dump_items(cart.items))>> >>)

RECURSIVE json_dump_members(_, _)
json_dump_members(carts, keys) ==
    IF keys = <<>> THEN <<>>
    ELSE << <<Head(keys), json_dump_cart(carts[Head(keys)])>> >>
            \o json_dump_members(carts, Tail(keys))

\* json.dump of the cart document: one member per user key
json_dump(carts) == JObject(json_dump_members(carts, KeysInOrder(DOMAIN carts)))

\* json.load: strings, ints, lists and dicts; of two members of the same name
\* the later one counts
RECURSIVE json_load(_), json_load_elems(_), json_load_members(_)
json_load(v) ==
    CASE v.json = "string" -> v.chars
      [] v.json = "number" -> int(S(v.digits)).val
      [] v.json = "array" -> json_load_elems(v.elems)
      [] v.json = "object" -> json_load_members(v.members)
json_load_elems(elems) ==
    IF elems = <<>> THEN <<>>
    ELSE <<json_load(Head(elems))>> \o json_load_elems(Tail(elems))
json_load_members(members) ==
    IF members = <<>> THEN <<>>
    ELSE json_load_members(Tail(members))
            @@ (Head(members)[1] :> json_load(Head(members)[2]))

\* carts.json: absent, unparsable, or holding JSON text.  A file of JSON text
\* is kept as the document json.load reads from that text.
FileAbsent == [state |-> "absent", doc |-> <<>>]
FileCorrupt == [state |-> "corrupt", doc |-> <<>>]

\* mutant: the document that was read is dropped and {} returned
load_carts_empty(file) == EmptyDoc

load_carts(file) ==
    IF file.state = "absent" THEN EmptyDoc
    ELSE IF file.state = "corrupt" THEN EmptyDoc
    ELSE file.doc

save_carts(carts) == [state |-> "json", doc |-> json_load(json_dump(carts))]

\* mutant: the empty cart of a new user is returned but not persisted
get_cart_nosave(file, user_id) ==
    LET carts == load_carts(file)
        key == str(user_id)
    IN  IF key \notin DOMAIN carts
        THEN [file |-> file, cart |-> [items |-> <<>>]]
        ELSE [file |-> file, cart |-> carts[key]]

\* get_cart returns the cart and the file it leaves behind
get_cart(file, user_id) ==
    LET carts == load_carts(file)
        key == str(user_id)
    IN  IF key \notin DOMAIN carts
        THEN LET carts2 == DocWith(carts, key, [items |-> <<>>])
             IN  [file |-> save_carts(carts2), cart |-> carts2[key]]
        ELSE [file |-> file, cart |-> carts[key]]

\* mutant: writes the user's cart without loading the document first
update_cart_overwrites(file, user_id, cart) ==
    save_carts(DocWith(EmptyDoc, str(user_id), cart))

update_cart(file, user_id, cart) ==
    LET carts == load_carts(file)
    IN  save_carts(DocWith(carts, str(user_id), cart))

\* mutant: the whole document is emptied
clear_cart_all(file, user_id) == save_carts(EmptyDoc)

\* mutant: pops the int key, which the document never holds
clear_cart_intkey(file, user_id) ==
    LET carts == load_carts(file)
    IN  save_carts(carts)

clear_cart(file, user_id) ==
    LET carts == load_carts(file)
    IN  save_carts(DocWithout(carts, str(user_id)))

\* -------------------------------------------------------------- keyboards
\* A keyboard is a sequence of rows, a row a sequence of buttons, a button its
\* callback_data (a str).  A builder returns [exc, kb]: exc is the exception
\* it raises, "none" when it returns.
Returned(kb) == [exc |-> "none", kb |-> kb]
Raised(e) == [exc |-> e, kb |-> <<>>]

\* [buttons[i : i + 2] for i in range(0, len(buttons), 2)]
RowsOfTwo(buttons) ==
    [r \in 1..((Len(buttons) + 1) \div 2) |->
        SubSeq(buttons, 2 * r - 1, IF 2 * r <= Len(buttons) THEN 2 * r ELSE Len(buttons))]

main_menu_keyboard ==
    LET buttons == [i \in 1..Len(CARS_keys) |-> JoinBar(<<S("car"), S(CARS_keys[i])>>)]
                   \o <<S("view_cart")>>
    IN  Returned(RowsOfTwo(buttons))

\* Line 127 builds the first row from m, the loop variable of line 128, before
\* the loop has bound it: m is a local of the function, so the read raises
\* UnboundLocalError for every car_name and no keyboard is returned.
models_keyboard(car_name) ==
    LET models == CARS_get(car_name)
        m_bound == FALSE
    IN  IF ~m_bound THEN Raised("UnboundLocalError")
        ELSE Returned(
                [i \in 1..Len(models) |-> <<JoinBar(<<S("model"), car_name, S(models[i])>>)>>]
                \o << <<S("back_main")>>, <<S("view_cart")>> >>)

model_options_keyboard(car_name, model) ==
    Returned(<<
        <<JoinBar(<<S("tires_type"), car_name, model, S("foreign")>>)>>,
        <<JoinBar(<<S("tires_type"), car_name, model, S("domestic")>>)>>,
        <<JoinBar(<<S("part"), car_name, model, S("lightback")>>)>>,
        <<JoinBar(<<S("part"), car_name, model, S("mirror")>>)>>,
        <<JoinBar(<<S("part"), car_name, model, S("front_glass")>>)>>,
        <<JoinBar(<<S("part"), car_name, model, S("rear_glass")>>)>>,
        <<JoinBar(<<S("back_models"), car_name>>)>>,
        <<S("back_main")>>,
        <<S("view_cart")>> >>)

tires_size_keyboard(car_name, model, tire_type) ==
    LET prices == TIRES_PRICES_get(tire_type)
    IN  Returned(
            [i \in 1..Len(prices) |->
                <<JoinBar(<<S("add_item"), car_name, model,
                            Concat(S("tire "), tire_type),
                            S(prices[i][1]), str(prices[i][2])>>)>>]
            \o << <<JoinBar(<<S("back_model_options"), car_name, model>>)>>,
                  <<S("view_cart")>> >>)

\* mutant: the price and the quantity field of the add action are swapped
part_confirm_keyboard_swapped(car_name, model, part_name, price) ==
    Returned(<<
        <<JoinBar(<<S("add_item"), car_name, model, part_name, str(price), S("1")>>)>>,
        <<JoinBar(<<S("back_model_options"), car_name, model>>)>>,
        <<S("view_cart")>> >>)

part_confirm_keyboard(car_name, model, part_name, price) ==
    Returned(<<
        <<JoinBar(<<S("add_item"), car_name, model, part_name, S("1"), str(price)>>)>>,
        <<JoinBar(<<S("back_model_options"), car_name, model>>)>>,
        <<S("view_cart")>> >>)

\* cart_keyboard reads the cart through get_cart, so it also returns the file
cart_keyboard(file, user_id) ==
    LET g == get_cart(file, user_id)
    IN  [exc |-> "none", file |-> g.file,
         kb |-> (IF g.cart.items # <<>>
                 THEN << <<S("checkout")>>, <<S("clear_cart")>> >>
                 ELSE <<>>)
                \o << <<S("back_main")>> >>]

\* the callback data a keyboard offers
Keys(kb) == UNION {{kb[r][c] : c \in DOMAIN kb[r]} : r \in DOMAIN kb}

\* --------------------------------------------------------------- messages
\* A message text: a tag naming the fixed Persian wording, the values it
\* interpolates, and, for a cart listing, its lines.
Text(tag, args, lines) == [tag |-> tag, args |-> args, lines |-> lines]

\* What a handler did: the exception that ended it ("none": it returned), the
\* file it left, the texts it delivered to the administrator, whether it tried
\* to ("none", "ok", "failed"), and the message it showed the user: how is
\* "edit" (edit_text: replaces the menu message and its keyboard), "reply"
\* (reply_text: a new message; kb is <<>> when it carries no keyboard) or
\* "none".
Effect(exc, file, sends, delivery, how, text, kb) ==
    [exc |-> exc, file |-> file, sends |-> sends, delivery |-> delivery,
     how |-> how, text |-> text, kb |-> kb]

NoText == Text("none", <<>>, <<>>)
Raise(exc, file) == Effect(exc, file, <<>>, "none", "none", NoText, <<>>)
Reply(file, text) == Effect("none", file, <<>>, "none", "reply", text, <<>>)
\* mutant: editing a menu also rewrites the cart document
Edit_saves(file, text, k) ==
    IF k.exc # "none" THEN Raise(k.exc, file)
    ELSE Effect("none", save_carts(load_carts(file)), <<>>, "none", "edit", text, k.kb)

\* query.message.edit_text(text, reply_markup=k): k is evaluated first, so a
\* builder that raises ends the handler before anything is shown
Edit(file, text, k) ==
    IF k.exc # "none" THEN Raise(k.exc, file)
    ELSE Effect("none", file, <<>>, "none", "edit", text, k.kb)

\* mutant: total = subtotal instead of total += subtotal
RECURSIVE summary_loop_nosum(_, _, _, _)
summary_loop_nosum(items, i, lines, total) ==
    IF i > Len(items) THEN [lines |-> lines, total |-> total]
    ELSE LET it == items[i]
             subtotal == it.price * it.qty
         IN  summary_loop_nosum(items, i + 1,
                 Append(lines, [kind |-> "item", n |-> i, car |-> it.car,
                                model |-> it.model, name |-> it.name,
                                meta |-> it.meta, qty |-> it.qty,
                                subtotal |-> subtotal]),
                 subtotal)

\* the loop shared by show_cart (281-288), handle_checkout (305-310) and
\* cart_command (336-341): numbered lines and the running total
RECURSIVE summary_loop(_, _, _, _)
summary_loop(items, i, lines, total) ==
    IF i > Len(items) THEN [lines |-> lines, total |-> total]
    ELSE LET it == items[i]
             price == it.price
             qty == it.qty
             subtotal == price * qty
         IN  summary_loop(items, i + 1,
                 Append(lines, [kind |-> "item", n |-> i, car |-> it.car,
                                model |-> it.model, name |-> it.name,
                                meta |-> it.meta, qty |-> qty,
                                subtotal |-> subtotal]),
                 total + subtotal)

\* mutant: the total line is joined without its leading line break
JoinLines_noblank(lines, total) ==
    lines \o << [kind |-> "total", total |-> total] >>

\* lines.append(f"\n... {total}") and "\n".join(lines): the appended element
\* starts with a newline, so the text shows an empty line before the total
JoinLines(lines, total) ==
    lines \o << [kind |-> "blank"], [kind |-> "total", total |-> total] >>

\* ---------------------------------------------------------------- handlers
show_cart(file, user_id) ==
    LET g == get_cart(file, user_id)
        items == g.cart.items
        k == cart_keyboard(g.file, user_id)
        s == summary_loop(items, 1, <<>>, 0)
    IN  IF items = <<>>
        THEN Effect("none", k.file, <<>>, "none", "edit",
                    Text("your_cart_is_empty", <<>>, <<>>), k.kb)
        ELSE Effect("none", k.file, <<>>, "none", "edit",
                    Text("cart", <<>>, JoinLines(s.lines, s.total)), k.kb)

\* mutant: the successful branch does not clear the cart
handle_checkout_noclear(file, user_id, send_ok) ==
    LET g == get_cart(file, user_id)
        items == g.cart.items
        s == summary_loop(items, 1, <<[kind |-> "header", user |-> user_id]>>, 0)
        text == Text("order", <<>>, JoinLines(s.lines, s.total))
    IN  IF items = <<>>
        THEN Reply(g.file, Text("cart_is_empty", <<>>, <<>>))
        ELSE IF ~send_ok
        THEN Effect("none", g.file, <<>>, "failed", "reply",
                    Text("send_failed", <<>>, <<>>), <<>>)
        ELSE Effect("none", g.file, <<text>>, "ok", "reply",
                    Text("order_sent", <<>>, <<>>), <<>>)

\* mutant: the cart is cleared before the delivery is attempted
handle_checkout_clearfirst(file, user_id, send_ok) ==
    LET g == get_cart(file, user_id)
        items == g.cart.items
        s == summary_loop(items, 1, <<[kind |-> "header", user |-> user_id]>>, 0)
        text == Text("order", <<>>, JoinLines(s.lines, s.total))
    IN  IF items = <<>>
        THEN Reply(g.file, Text("cart_is_empty", <<>>, <<>>))
        ELSE IF ~send_ok
        THEN Effect("none", clear_cart(g.file, user_id), <<>>, "failed", "reply",
                    Text("send_failed", <<>>, <<>>), <<>>)
        ELSE Effect("none", clear_cart(g.file, user_id), <<text>>, "ok", "reply",
                    Text("order_sent", <<>>, <<>>), <<>>)

\* mutant: no test for the empty cart
handle_checkout_nocheck(file, user_id, send_ok) ==
    LET g == get_cart(file, user_id)
        items == g.cart.items
        s == summary_loop(items, 1, <<[kind |-> "header", user |-> user_id]>>, 0)
        text == Text("order", <<>>, JoinLines(s.lines, s.total))
    IN  IF ~send_ok
        THEN Effect("none", g.file, <<>>, "failed", "reply",
                    Text("send_failed", <<>>, <<>>), <<>>)
        ELSE Effect("none", clear_cart(g.file, user_id), <<text>>, "ok", "reply",
                    Text("order_sent", <<>>, <<>>), <<>>)

handle_checkout(file, user_id, send_ok) ==
    LET g == get_cart(file, user_id)
        items == g.cart.items
        s == summary_loop(items, 1, <<[kind |-> "header", user |-> user_id]>>, 0)
        text == Text("order", <<>>, JoinLines(s.lines, s.total))
    IN  IF items = <<>>
        THEN Reply(g.file, Text("cart_is_empty", <<>>, <<>>))
        ELSE IF ~send_ok
        THEN Effect("none", g.file, <<>>, "failed", "reply",
                    Text("send_failed", <<>>, <<>>), <<>>)
        ELSE Effect("none", clear_cart(g.file, user_id), <<text>>, "ok", "reply",
                    Text("order_sent", <<>>, <<>>), <<>>)

\* handle_checkout up to its await of send_message (295-312): the cart as
\* read, and the text built from it
checkout_read(file, user_id) ==
    LET g == get_cart(file, user_id)
        items == g.cart.items
        s == summary_loop(items, 1, <<[kind |-> "header", user |-> user_id]>>, 0)
    IN  [file |-> g.file, items |-> items,
         text |-> Text("order", <<>>, JoinLines(s.lines, s.total))]

\* handle_checkout from the outcome of send_message on (316-324), on the file
\* as it is by then
checkout_finish(file, user_id, text, send_ok) ==
    IF ~send_ok
    THEN Effect("none", file, <<>>, "failed", "reply",
                Text("send_failed", <<>>, <<>>), <<>>)
    ELSE Effect("none", clear_cart(file, user_id), <<text>>, "ok", "reply",
                Text("order_sent", <<>>, <<>>), <<>>)

\* mutant: the item is appended to a fresh list, not to the cart that was read
add_item_restarts(file, user_id, data) ==
    LET parts == SplitAll(data)
    IN  IF Len(parts) < 6
        THEN Reply(file, Text("invalid_product_data", <<>>, <<>>))
        ELSE IF Len(parts) # 6
        THEN Raise("ValueError", file)
        ELSE LET car_name == parts[2]
                 model == parts[3]
                 item_name == parts[4]
                 meta == parts[5]
                 price_str == parts[6]
                 p == int(price_str)
             IN  IF p.exc # "none" THEN Raise(p.exc, file)
                 ELSE LET price == p.val
                          item == [car |-> car_name, model |-> model,
                                   name |-> item_name, meta |-> meta,
                                   price |-> price, qty |-> 1]
                          g == get_cart(file, user_id)
                          cart_items == <<item>>
                          cart == [g.cart EXCEPT !.items = cart_items]
                      IN  Reply(update_cart(g.file, user_id, cart),
                                Text("added", <<item_name, meta, str(price)>>, <<>>))

\* the add_item branch of callback_router (226-251)
add_item(file, user_id, data) ==
    LET parts == SplitAll(data)
    IN  IF Len(parts) < 6
        THEN Reply(file, Text("invalid_product_data", <<>>, <<>>))
        ELSE IF Len(parts) # 6
        THEN Raise("ValueError", file)
        ELSE LET car_name == parts[2]
                 model == parts[3]
                 item_name == parts[4]
                 meta == parts[5]
                 price_str == parts[6]
                 p == int(price_str)
             IN  IF p.exc # "none" THEN Raise(p.exc, file)
                 ELSE LET price == p.val
                          item == [car |-> car_name, model |-> model,
                                   name |-> item_name, meta |-> meta,
                                   price |-> price, qty |-> 1]
                          g == get_cart(file, user_id)
                          cart_items == Append(g.cart.items, item)
                          cart == [g.cart EXCEPT !.items = cart_items]
                      IN  Reply(update_cart(g.file, user_id, cart),
                                Text("added", <<item_name, meta, str(price)>>, <<>>))

\* the part| branch of callback_router (216-225)
part_branch(file, data) ==
    LET parts == SplitMax(data, 3)
    IN  IF Len(parts) # 4 THEN Raise("ValueError", file)
        ELSE LET car_name == parts[2]
                 model == parts[3]
                 part_key == parts[4]
             IN  IF part_key = S("lightback")
                 THEN LET price == OTHER_PARTS_PRICES_get(S("lightback_foreign"), 205)
                      IN  Edit(file, Text("part_price", <<part_key, str(price)>>, <<>>),
                               part_confirm_keyboard(car_name, model,
                                                     S("lightback_foreign"), price))
                 ELSE LET price == OTHER_PARTS_PRICES_get(part_key, 100)
                      IN  Edit(file, Text("part_price", <<part_key, str(price)>>, <<>>),
                               part_confirm_keyboard(car_name, model, part_key, price))

\* mutant: the fallback raises instead of replying
fallback_raises(file) == Raise("ValueError", file)

\* the default fallback of callback_router (268-269)
fallback(file) == Reply(file, Text("invalid_or_expired", <<>>, <<>>))

\* callback_router as a function of the file, the user, the callback data and
\* whether the transport will deliver a message to the administrator
route(file, user_id, data, send_ok) ==
    IF data = S("view_cart") THEN show_cart(file, user_id)
    ELSE IF data = S("back_main")
    THEN Edit(file, Text("main_menu", <<>>, <<>>), main_menu_keyboard)
    ELSE IF StartsWithBar(data, "car")
    THEN LET car_name == SplitMax(data, 1)[2]
         IN  Edit(file, Text("models_of", <<car_name>>, <<>>), models_keyboard(car_name))
    ELSE IF StartsWithBar(data, "model")
    THEN LET parts == SplitMax(data, 2)
         IN  IF Len(parts) # 3 THEN Raise("ValueError", file)
             ELSE Edit(file, Text("options_for", <<parts[2], parts[3]>>, <<>>),
                       model_options_keyboard(parts[2], parts[3]))
    ELSE IF StartsWithBar(data, "tires_type")
    THEN LET parts == SplitMax(data, 3)
         IN  IF Len(parts) # 4 THEN Raise("ValueError", file)
             ELSE Edit(file, Text("tire_sizes", <<parts[4]>>, <<>>),
                       tires_size_keyboard(parts[2], parts[3], parts[4]))
    ELSE IF StartsWithBar(data, "part") THEN part_branch(file, data)
    ELSE IF StartsWithBar(data, "add_item") THEN add_item(file, user_id, data)
    ELSE IF data = S("clear_cart")
    THEN Reply(clear_cart(file, user_id), Text("cart_cleared", <<>>, <<>>))
    ELSE IF data = S("checkout") THEN handle_checkout(file, user_id, send_ok)
    ELSE IF StartsWithBar(data, "back_models")
    THEN LET car_name == SplitMax(data, 1)[2]
         IN  Edit(file, Text("models_of", <<car_name>>, <<>>), models_keyboard(car_name))
    ELSE IF StartsWithBar(data, "back_model_options")
    THEN LET parts == SplitMax(data, 2)
         IN  IF Len(parts) # 3 THEN Raise("ValueError", file)
             ELSE Edit(file, Text("options_for", <<parts[2], parts[3]>>, <<>>),
                       model_options_keyboard(parts[2], parts[3]))
    ELSE fallback(file)

\* /cart
cart_reply(file, user_id) ==
    LET g == get_cart(file, user_id)
        items == g.cart.items
        s == summary_loop(items, 1, <<>>, 0)
    IN  IF items = <<>>
        THEN Reply(g.file, Text("your_cart_is_empty", <<>>, <<>>))
        ELSE Reply(g.file, Text("cart", <<>>, JoinLines(s.lines, s.total)))

\* ------------------------------------------------------------------ state
VARIABLES
    carts_file,   \* the content of carts.json
    screen,       \* per user: the menu message on display (which menu, and
                  \* its keyboard)
    last,         \* the update handled last and what its handler put out: the
                  \* message shown to the user and the messages delivered to
                  \* ADMIN_CHAT_ID_INT
    accepted,     \* per user: the add_item commands accepted since the user's
                  \* last clear_cart command or successful checkout
    inflight,     \* per task of the event loop: the handler coroutine it runs
                  \* and the await it is suspended at
    store_call    \* a save_carts and load_carts call pair: the document
                  \* handed to save_carts and the one load_carts returned

vars == <<carts_file, screen, last, accepted, inflight, store_call>>

\* the tasks of the event loop, and a task that runs no handler
Tasks == {"t1", "t2"}
Idle == [pc |-> "idle"]
NoTasks == [t \in Tasks |-> Idle]
NoCall == [pc |-> "none"]

NoScreen == [tag |-> "none", kb |-> <<>>]

\* the items of a user's cart as the file holds them (no entry: none)
ItemsOf(file, user_id) ==
    LET carts == load_carts(file)
    IN  IF str(user_id) \in DOMAIN carts THEN carts[str(user_id)].items ELSE <<>>

HasEntry(file, user_id) == str(user_id) \in DOMAIN load_carts(file)

Init ==
    /\ carts_file \in {FileAbsent, FileCorrupt}
    /\ screen = [u \in Users |-> NoScreen]
    /\ last = [user |-> 0, via |-> "none", data |-> <<>>, exc |-> "none",
               delivery |-> "none", sends |-> <<>>, how |-> "none",
               text |-> NoText, kb |-> <<>>]
    /\ accepted = [u \in Users |-> <<>>]
    /\ inflight = NoTasks
    /\ store_call = NoCall

\* The state after a handler ran for user u with effect r.  An update whose
\* handler raises leaves what the handler wrote before the raise; the
\* Application logs the exception and goes on with the next update.
Handled(u, via, data, r) ==
    /\ \A v \in Users : Len(ItemsOf(r.file, v)) <= MaxItems
    /\ carts_file' = r.file
    /\ screen' = IF r.how = "edit" \/ (r.how = "reply" /\ r.kb # <<>>)
                 THEN [screen EXCEPT ![u] = [tag |-> r.text.tag, kb |-> r.kb]]
                 ELSE screen
    /\ last' = [user |-> u, via |-> via, data |-> data, exc |-> r.exc,
                delivery |-> r.delivery, sends |-> r.sends, how |-> r.how,
                text |-> r.text, kb |-> r.kb]
    /\ accepted' = [accepted EXCEPT ![u] =
                        IF r.text.tag = "added" THEN Append(@, data)
                        ELSE IF r.text.tag = "cart_cleared" \/ r.delivery = "ok"
                        THEN <<>>
                        ELSE @]

\* /start: a new message carrying the root menu
start(u) ==
    /\ Handled(u, "command", S("/start"),
               Effect("none", carts_file, <<>>, "none", "reply",
                      Text("welcome", <<>>, <<>>), main_menu_keyboard.kb))
    /\ UNCHANGED <<inflight, store_call>>

\* /cart
cart_command(u) ==
    /\ \E r \in {cart_reply(carts_file, u)} : Handled(u, "command", S("/cart"), r)
    /\ UNCHANGED <<inflight, store_call>>

\* /help
help_command(u) ==
    /\ Handled(u, "command", S("/help"), Reply(carts_file, Text("help", <<>>, <<>>)))
    /\ UNCHANGED <<inflight, store_call>>

\* a button press: the callback query with this data reaches callback_router
\* (a delivery can fail in a checkout only, so other data is not tried with a
\* failing one)
callback_router(u, data, send_ok) ==
    /\ send_ok \/ data = S("checkout")
    /\ \E r \in {route(carts_file, u, data, send_ok)} :
        /\ send_ok \/ r.delivery = "failed"
        /\ Handled(u, "callback", data, r)
    /\ UNCHANGED <<inflight, store_call>>

\* --------------------------------------------------------------- commands
cmd_tire == tires_size_keyboard(S("Pride"), S("111"), S("foreign")).kb[1][1]
cmd_mirror == part_confirm_keyboard(S("Pride"), S("111"), S("mirror"), 120).kb[1][1]
cmd_model == JoinBar(<<S("model"), S("Pride"), S("111")>>)
cmd_options == model_options_keyboard(S("Pride"), S("111")).kb

\* stale or forged callback data
cmd_short == JoinBar(<<S("add_item"), S("Pride"), S("111"), S("mirror"), S("1")>>)
cmd_long == JoinBar(<<cmd_mirror, S("x")>>)
cmd_badprice == JoinBar(<<S("add_item"), S("Pride"), S("111"), S("mirror"), S("1"), S("abc")>>)
cmd_zeros == JoinBar(<<S("add_item"), S("Pride"), S("111"), S("mirror"), S("1"), S("0120")>>)
cmd_model_short == JoinBar(<<S("model"), S("Pride")>>)
cmd_part_unknown == JoinBar(<<S("part"), S("Pride"), S("111"), S("wiper")>>)
cmd_unknown == S("expired")
\* a known prefix without its delimiter
cmd_bare == S("add_item")

Commands(u) ==
    IF u = 1
    THEN {S("view_cart"), S("back_main"), S("clear_cart"), S("checkout"),
          JoinBar(<<S("car"), S("Pride")>>), cmd_model,
          cmd_options[1][1], cmd_options[4][1], cmd_options[7][1],
          tires_size_keyboard(S("Pride"), S("111"), S("foreign")).kb[4][1],
          cmd_tire, cmd_mirror,
          cmd_short, cmd_long, cmd_badprice, cmd_zeros, cmd_model_short,
          cmd_part_unknown, cmd_unknown, cmd_bare}
    ELSE {S("clear_cart"), S("checkout"), cmd_mirror}

Next ==
    \E u \in Users :
        \/ start(u)
        \/ cart_command(u)
        \/ help_command(u)
        \/ \E data \in Commands(u), send_ok \in BOOLEAN :
                callback_router(u, data, send_ok)

Spec == Init /\ [][Next]_vars

\* ------------------------------------------------------ claims: vocabulary
\* the update handled last is a press of the button `data` by user u
Pressed(l, u, data) == l.via = "callback" /\ l.user = u /\ l.data = data

\* the cart item an add_item command with six fields asks for
ItemOfCommand(data) ==
    [car |-> <<data[2]>>, model |-> <<data[3]>>, name |-> <<data[4]>>,
     meta |-> <<data[5]>>, price |-> int(<<data[6]>>).val, qty |-> 1]

\* sum of price * qty over a sequence of items
RECURSIVE SumCart(_)
SumCart(items) ==
    IF items = <<>> THEN 0
    ELSE items[1].price * items[1].qty + SumCart(Tail(items))

\* the total a cart listing or an order summary ends with
TotalShown(text) == text.lines[Len(text.lines)].total

\* C1: in every reachable state, every user's cart holds exactly the items of
\* the add_item commands accepted for that user since the user's last
\* clear_cart command or successful checkout, one item per command, in the
\* order the commands were accepted.
C1_CartIsAcceptedAdds ==
    \A u \in Users :
        LET items == ItemsOf(carts_file, u)
        IN  /\ Len(items) = Len(accepted[u])
            /\ \A i \in 1..Len(items) : items[i] = ItemOfCommand(accepted[u][i])

\* two different items accepted for user 1 after an order of user 1 went out,
\* while user 2 holds an item too
C1_Witness ==
    /\ last.text.tag = "added"
    /\ last.user = 1
    /\ Len(accepted[1]) = 2
    /\ accepted[1][1] # accepted[1][2]
    /\ Len(ItemsOf(carts_file, 2)) = 1

\* C2: a checkout press on a non-empty cart whose delivery does not fail removes
\* the user's entry from the document (so the cart view that follows is the
\* empty one), replies "order sent", and delivers exactly one message to the
\* administrator.
C2_CheckoutSuccessClears ==
    [][\A u \in Users :
        (/\ Pressed(last', u, S("checkout"))
         /\ ItemsOf(carts_file, u) # <<>>
         /\ last'.delivery # "failed")
        => /\ ~HasEntry(carts_file', u)
           /\ show_cart(carts_file', u).text.tag = "your_cart_is_empty"
           /\ last'.exc = "none"
           /\ last'.how = "reply"
           /\ last'.text.tag = "order_sent"
           /\ last'.delivery = "ok"
           /\ Len(last'.sends) = 1]_vars

C2_Witness ==
    /\ Pressed(last, 1, S("checkout"))
    /\ last.delivery = "ok"
    /\ Len(last.sends) = 1
    /\ Len(last.sends[1].lines) = 5
    /\ ~HasEntry(carts_file, 1)

\* C3: a checkout press on a non-empty cart whose delivery fails leaves the
\* document as it was (the user's items the same, in the same order), replies
\* "send failed, retry later", and delivers nothing to the administrator.
C3_CheckoutFailureKeepsCart ==
    [][\A u \in Users :
        (/\ Pressed(last', u, S("checkout"))
         /\ ItemsOf(carts_file, u) # <<>>
         /\ last'.delivery = "failed")
        => /\ ItemsOf(carts_file', u) = ItemsOf(carts_file, u)
           /\ carts_file' = carts_file
           /\ last'.exc = "none"
           /\ last'.how = "reply"
           /\ last'.text.tag = "send_failed"
           /\ last'.sends = <<>>]_vars

C3_Witness ==
    /\ Pressed(last, 1, S("checkout"))
    /\ last.delivery = "failed"
    /\ Len(ItemsOf(carts_file, 1)) = 2
    /\ ItemsOf(carts_file, 1)[1] # ItemsOf(carts_file, 1)[2]

\* C4: a checkout press by a user whose cart is empty or absent delivers
\* nothing to the administrator and attempts no delivery, leaves the user's
\* cart empty and every other user's cart and every menu as they were, and
\* replies "cart is empty" (the document may gain the user's empty entry,
\* which get_cart persists).
C4_CheckoutEmptyIsNoOp ==
    [][\A u \in Users :
        (/\ Pressed(last', u, S("checkout"))
         /\ ItemsOf(carts_file, u) = <<>>)
        => /\ last'.sends = <<>>
           /\ last'.delivery = "none"
           /\ ItemsOf(carts_file', u) = <<>>
           /\ \A v \in Users \ {u} :
                /\ ItemsOf(carts_file', v) = ItemsOf(carts_file, v)
                /\ HasEntry(carts_file', v) = HasEntry(carts_file, v)
           /\ screen' = screen
           /\ accepted' = accepted
           /\ last'.exc = "none"
           /\ last'.how = "reply"
           /\ last'.text.tag = "cart_is_empty"]_vars

C4_Witness ==
    /\ Pressed(last, 2, S("checkout"))
    /\ last.text.tag = "cart_is_empty"
    /\ ItemsOf(carts_file, 2) = <<>>
    /\ ItemsOf(carts_file, 1) # <<>>

\* C5: whenever a handler shows a cart listing (view_cart button or /cart), the
\* total it ends with is the sum of price * qty over the items the user's cart
\* holds; whenever a checkout delivers an order summary, its total is that sum
\* over the items the cart held when the checkout read it.
C5_TotalIsSum ==
    [][/\ last'.text.tag = "cart"
            => TotalShown(last'.text) = SumCart(ItemsOf(carts_file', last'.user))
       /\ last'.sends # <<>>
            => TotalShown(last'.sends[1]) = SumCart(ItemsOf(carts_file, last'.user))]_vars

\* a listing of two items of different price, shown after a clear_cart
C5_Witness ==
    /\ last.text.tag = "cart"
    /\ Len(ItemsOf(carts_file, last.user)) = 2
    /\ TotalShown(last.text) = 305

\* C6: a view_cart press that comes right after the same user's clear_cart
\* press shows the empty-cart screen: the "your cart is empty" text, no item
\* line, and a keyboard that offers back_main only.
C6_ClearThenViewIsEmpty ==
    [][\A u \in Users :
        (/\ Pressed(last, u, S("clear_cart"))
         /\ Pressed(last', u, S("view_cart")))
        => /\ last'.exc = "none"
           /\ last'.how = "edit"
           /\ last'.text.tag = "your_cart_is_empty"
           /\ last'.text.lines = <<>>
           /\ Keys(last'.kb) = {S("back_main")}
           /\ screen'[u].kb = last'.kb]_vars

\* user 1 cleared the cart while the menu on display was the listing of a
\* non-empty cart (it still offers checkout and clear_cart)
C6_Witness ==
    /\ Pressed(last, 1, S("clear_cart"))
    /\ screen[1].tag = "cart"
    /\ S("checkout") \in Keys(screen[1].kb)
    /\ ItemsOf(carts_file, 1) = <<>>

\* C7: every button press ends without an exception and with a message shown
\* to the user (an edited menu or a reply).
C7_RouterIsTotal ==
    last.via = "callback" => (last.exc = "none" /\ last.how \in {"edit", "reply"})

\* ------------------------------------------------- the shopper (claim C8)
\* User 1 starts at the root menu with no cart and presses only buttons that
\* the menu on display offers, each time one that leads on towards an order:
\* a brand on the root menu, a model on the model menu, a tire origin or a
\* part on the option menu, the add button on a tire-size or confirm screen
\* (view_cart once the cart holds an item), checkout on the cart listing,
\* back_main on the empty-cart screen.  The transport delivers.
Shopper == CHOOSE u \in Users : \A v \in Users : u <= v

LeadsOn(tag, data, items) ==
    \/ tag \in {"welcome", "main_menu"} /\ StartsWithBar(data, "car")
    \/ tag = "models_of" /\ StartsWithBar(data, "model")
    \/ tag = "options_for" /\ (StartsWithBar(data, "tires_type") \/ StartsWithBar(data, "part"))
    \/ tag \in {"tire_sizes", "part_price"} /\ items = <<>> /\ StartsWithBar(data, "add_item")
    \/ tag \in {"tire_sizes", "part_price"} /\ items # <<>> /\ data = S("view_cart")
    \/ tag = "cart" /\ data = S("checkout")
    \/ tag = "your_cart_is_empty" /\ data = S("back_main")

ShopperPress ==
    \E data \in Keys(screen[Shopper].kb) :
        /\ LeadsOn(screen[Shopper].tag, data, ItemsOf(carts_file, Shopper))
        /\ callback_router(Shopper, data, TRUE)

InitShopper ==
    /\ carts_file = FileAbsent
    /\ screen = [u \in Users |-> [tag |-> "welcome", kb |-> main_menu_keyboard.kb]]
    /\ last = [user |-> 0, via |-> "none", data |-> <<>>, exc |-> "none",
               delivery |-> "none", sends |-> <<>>, how |-> "none",
               text |-> NoText, kb |-> <<>>]
    /\ accepted = [u \in Users |-> <<>>]
    /\ inflight = NoTasks
    /\ store_call = NoCall

\* the other users press what they like, and anyone may send /cart or /help
NextShopper ==
    \/ ShopperPress
    \/ \E u \in Users : cart_command(u)
    \/ \E u \in Users : help_command(u)
    \/ \E u \in Users \ {Shopper} : start(u)
    \/ \E u \in Users \ {Shopper} :
        \E data \in UNION {Commands(v) : v \in Users}, send_ok \in BOOLEAN :
            callback_router(u, data, send_ok)

SpecShopper == InitShopper /\ [][NextShopper]_vars /\ WF_vars(ShopperPress)

\* C8: the shopper's presses lead to an order: a checkout by the shopper that
\* delivers a message with at least one item line to the administrator.
C8_ShopperGetsAnOrderOut ==
    <>(/\ Pressed(last, Shopper, S("checkout"))
       /\ last.delivery = "ok"
       /\ Len(last.sends) = 1
       /\ Len(last.sends[1].lines) >= 4)

\* the buttons of a keyboard, row after row
RECURSIVE Buttons(_)
Buttons(kb) == IF kb = <<>> THEN <<>> ELSE kb[1] \o Buttons(Tail(kb))

\* the model menu of a brand: a button per model in catalog order, then
\* back_main and view_cart
ModelMenuButtons(brand) ==
    [i \in 1..Len(CARS[brand]) |-> JoinBar(<<S("model"), S(brand), S(CARS[brand][i])>>)]
    \o <<S("back_main"), S("view_cart")>>

\* C9: a press of car|<brand> or back_models|<brand>, for a brand of the
\* catalog, edits the menu into that brand's model menu.
C9_BrandShowsModelMenu ==
    \A brand \in DOMAIN CARS :
        (/\ last.via = "callback"
         /\ last.data \in {JoinBar(<<S("car"), S(brand)>>),
                           JoinBar(<<S("back_models"), S(brand)>>)})
        => /\ last.exc = "none"
           /\ last.how = "edit"
           /\ Buttons(last.kb) = ModelMenuButtons(brand)
           /\ screen[last.user].kb = last.kb

\* C10: an add_item press whose data does not split into six fields is
\* answered with the "invalid product data" reply and leaves the document,
\* hence every cart, as it was.
C10_WrongFieldCountRejected ==
    [][(/\ last'.via = "callback"
        /\ StartsWithBar(last'.data, "add_item")
        /\ Len(last'.data) # 6)
       => /\ last'.exc = "none"
          /\ last'.how = "reply"
          /\ last'.text.tag = "invalid_product_data"
          /\ carts_file' = carts_file]_vars

\* ----------------------------------------------------------- claims C11-C20
\* callback data of one of the eleven command kinds of callback_router
Recognized(data) ==
    \/ data \in {S("view_cart"), S("back_main"), S("clear_cart"), S("checkout")}
    \/ \E prefix \in {"car", "model", "tires_type", "part", "add_item",
                      "back_models", "back_model_options"} :
            StartsWithBar(data, prefix)

\* C12: a button press whose data is none of the eleven command kinds gets the
\* "invalid or expired" reply, raises nothing, and leaves the document, the
\* menus on display and every cart as they were.
C12_UnrecognizedFallsBack ==
    [][(last'.via = "callback" /\ ~Recognized(last'.data))
       => /\ last'.exc = "none"
          /\ last'.how = "reply"
          /\ last'.text.tag = "invalid_or_expired"
          /\ last'.sends = <<>>
          /\ carts_file' = carts_file
          /\ screen' = screen
          /\ accepted' = accepted]_vars

\* the prefix of a command without its delimiter fell back, with a cart on file
C12_Witness ==
    /\ Pressed(last, 1, cmd_bare)
    /\ last.text.tag = "invalid_or_expired"
    /\ Len(ItemsOf(carts_file, 1)) = 2

\* the order line of the i-th cart item
OrderLineOf(item, i) ==
    [kind |-> "item", n |-> i, car |-> item.car, model |-> item.model,
     name |-> item.name, meta |-> item.meta, qty |-> item.qty,
     subtotal |-> item.price * item.qty]

\* C13 as stated: the message of a successful checkout of n items has exactly
\* n + 2 lines (a header, one line per item, a total line).
C13_OrderHasItemsPlusTwoLines ==
    [][last'.delivery = "ok"
       => /\ Len(last'.sends) = 1
          /\ Len(last'.sends[1].lines)
                = Len(ItemsOf(carts_file, last'.user)) + 2]_vars

\* C13 amended: the message of a successful checkout of n >= 1 items is one
\* message of n + 3 lines: the header naming the user, one numbered line per
\* cart item in cart order, an empty line, and the total line.
C13_OrderHasItemsPlusThreeLines ==
    [][last'.delivery = "ok"
       => LET items == ItemsOf(carts_file, last'.user)
              n == Len(items)
          IN  /\ n >= 1
              /\ Len(last'.sends) = 1
              /\ LET lines == last'.sends[1].lines
                 IN  /\ Len(lines) = n + 3
                     /\ lines[1] = [kind |-> "header", user |-> last'.user]
                     /\ \A i \in 1..n : lines[i + 1] = OrderLineOf(items[i], i)
                     /\ lines[n + 2] = [kind |-> "blank"]
                     /\ lines[n + 3] = [kind |-> "total", total |-> SumCart(items)]]_vars

\* an order of two different items went out: five lines, the fourth one empty
C13_Witness ==
    /\ last.delivery = "ok"
    /\ last.user = 1
    /\ Len(last.sends[1].lines) = 5
    /\ last.sends[1].lines[2].name # last.sends[1].lines[3].name
    /\ last.sends[1].lines[4].kind = "blank"

\* the add action names an item of the catalog: a tire of a listed origin and
\* size, or a part with a listed key
InCatalog(key) ==
    LET name == key[4]
    IN  \/ /\ Len(name) = 2 /\ name[1] = "tire " /\ name[2] \in DOMAIN TIRES_PRICES
           /\ \E i \in DOMAIN TIRES_PRICES[name[2]] :
                    <<TIRES_PRICES[name[2]][i][1]>> = key[5]
        \/ Len(name) = 1 /\ name[1] \in DOMAIN OTHER_PARTS_PRICES

\* the price the catalog lists for the item of an add action
CatalogPrice(key) ==
    LET name == key[4]
    IN  IF Len(name) = 2
        THEN LET sizes == TIRES_PRICES[name[2]]
                 i == CHOOSE i \in DOMAIN sizes : <<sizes[i][1]>> = key[5]
             IN  sizes[i][2]
        ELSE OTHER_PARTS_PRICES[name[1]]

\* the add actions offered on a tire-size menu or a confirm-add screen
AddKeys(scr) ==
    IF scr.tag \in {"tire_sizes", "part_price"}
    THEN {key \in Keys(scr.kb) : StartsWithBar(key, "add_item")}
    ELSE {}

CartOperation(l, u) ==
    /\ l.user = u
    /\ \/ l.via = "command" /\ l.data = S("/cart")
       \/ /\ l.via = "callback"
          /\ \/ l.data \in {S("view_cart"), S("clear_cart"), S("checkout")}
             \/ /\ StartsWithBar(l.data, "add_item")
                /\ Len(l.data) = 6
                /\ int(<<l.data[6]>>).exc = "none"

\* C15: on an absent or unparsable file every cart operation completes and
\* sees empty carts: a listing says the cart is empty, a checkout sends
\* nothing, an add leaves a cart of that one item, a clear leaves no entry,
\* and no other user gets an item.  On a file holding a document the listing
\* shows the items persisted for the user.
C15_LoadFallsBackToEmpty ==
    [][\A u \in Users :
        /\ (carts_file.state # "json" /\ CartOperation(last', u))
            => /\ last'.exc = "none"
               /\ carts_file'.state = "json"
               /\ last'.sends = <<>>
               /\ last'.data \in {S("view_cart"), S("/cart")}
                    => last'.text.tag = "your_cart_is_empty"
               /\ last'.data = S("checkout") => last'.text.tag = "cart_is_empty"
               /\ last'.data = S("clear_cart") => ~HasEntry(carts_file', u)
               /\ StartsWithBar(last'.data, "add_item")
                    => ItemsOf(carts_file', u) = <<ItemOfCommand(last'.data)>>
               /\ \A v \in Users \ {u} : ItemsOf(carts_file', v) = <<>>
        /\ (/\ carts_file.state = "json"
            /\ str(u) \in DOMAIN carts_file.doc
            /\ carts_file.doc[str(u)].items # <<>>
            /\ last'.user = u
            /\ last'.data \in {S("view_cart"), S("/cart")})
            => LET items == carts_file.doc[str(u)].items
               IN  /\ last'.text.tag = "cart"
                   /\ \A i \in 1..Len(items) :
                        last'.text.lines[i] = OrderLineOf(items[i], i)]_vars

\* the first cart operation on the file as it was found: the listing says the
\* cart is empty and the file now holds the empty entry get_cart wrote
C15_Witness ==
    /\ CartOperation(last, 1)
    /\ last.data = S("view_cart")
    /\ last.text.tag = "your_cart_is_empty"
    /\ carts_file = save_carts(DocWith(EmptyDoc, str(1), [items |-> <<>>]))
    /\ screen[2] = NoScreen

\* the update handled removes the user's entry: a clear_cart or a checkout
\* whose order was delivered
Removes(l) ==
    l.via = "callback"
        /\ (l.data = S("clear_cart") \/ (l.data = S("checkout") /\ l.delivery = "ok"))

\* C17: a cart operation other than clear_cart and a delivered checkout leaves
\* the user's key in the document: an existing entry is returned as it is (the
\* file is not rewritten, an add appends to it), a missing one is persisted as
\* an empty cart.  A key leaves the document only by its own user's
\* clear_cart or delivered checkout, and those do remove it.
C17_GetCartPersistsEntry ==
    [][\A u \in Users :
        /\ (CartOperation(last', u) /\ ~Removes(last'))
            => /\ HasEntry(carts_file', u)
               /\ IF StartsWithBar(last'.data, "add_item")
                  THEN ItemsOf(carts_file', u)
                        = Append(ItemsOf(carts_file, u), ItemOfCommand(last'.data))
                  ELSE IF HasEntry(carts_file, u)
                  THEN carts_file' = carts_file
                  ELSE /\ carts_file'.state = "json"
                       /\ carts_file'.doc
                            = DocWith(load_carts(carts_file), str(u), [items |-> <<>>])
                       /\ last'.text.tag \in {"your_cart_is_empty", "cart_is_empty"}
        /\ (CartOperation(last', u) /\ Removes(last')) => ~HasEntry(carts_file', u)
        /\ (HasEntry(carts_file, u) /\ ~HasEntry(carts_file', u))
            => (last'.user = u /\ Removes(last'))]_vars

\* /cart of a user without an entry, next to another user's cart: the empty
\* entry is now in the document
C17_Witness ==
    /\ last.via = "command"
    /\ last.data = S("/cart")
    /\ last.user = 2
    /\ HasEntry(carts_file, 2)
    /\ ItemsOf(carts_file, 2) = <<>>
    /\ Len(ItemsOf(carts_file, 1)) = 2
    /\ accepted[2] = <<>>

\* callback data of a navigation command
Navigation(data) ==
    \/ data = S("back_main")
    \/ \E prefix \in {"car", "model", "tires_type", "part",
                      "back_models", "back_model_options"} :
            StartsWithBar(data, prefix)

\* C20: a navigation command (back_main, car|, model|, tires_type|, part|,
\* back_models|, back_model_options|) leaves the file, every cart and the
\* record of accepted adds as they were and sends nothing to the
\* administrator, whether its handler completes or raises.
C20_NavigationLeavesDocument ==
    [][(last'.via = "callback" /\ Navigation(last'.data))
       => /\ carts_file' = carts_file
          /\ \A u \in Users :
                /\ ItemsOf(carts_file', u) = ItemsOf(carts_file, u)
                /\ HasEntry(carts_file', u) = HasEntry(carts_file, u)
          /\ accepted' = accepted
          /\ last'.sends = <<>>]_vars

\* a navigation command that raised, and one that completed, with carts on file
C20_Witness ==
    /\ last.via = "callback"
    /\ Navigation(last.data)
    /\ last.exc # "none"
    /\ screen[1].tag = "part_price"
    /\ Len(ItemsOf(carts_file, 1)) = 2
    /\ ItemsOf(carts_file, 2) # <<>>

\* --------------------------------------------------- the store by itself
\* items as add_item writes them, and one with other values in every field
SampleItems ==
    {ItemOfCommand(cmd_tire), ItemOfCommand(cmd_mirror),
     [car |-> S("Peugeot"), model |-> S("206"), name |-> S("rear_glass"),
      meta |-> S("1"), price |-> 200, qty |-> 2]}

\* the item lists of at most MaxItems sample items
SampleLists == UNION {[1..n -> SampleItems] : n \in 0..MaxItems}

\* the cart documents over the users' keys
SampleDocs ==
    UNION {[keys -> {[items |-> l] : l \in SampleLists}] :
                keys \in SUBSET {str(u) : u \in Users}}

InitStore ==
    /\ carts_file \in {FileAbsent, FileCorrupt}
    /\ store_call \in {[pc |-> "start", carts |-> d, loaded |-> EmptyDoc] :
                            d \in SampleDocs}
    /\ screen = [u \in Users |-> NoScreen]
    /\ last = [user |-> 0, via |-> "none", data |-> <<>>, exc |-> "none",
               delivery |-> "none", sends |-> <<>>, how |-> "none",
               text |-> NoText, kb |-> <<>>]
    /\ accepted = [u \in Users |-> <<>>]
    /\ inflight = NoTasks

\* save_carts(carts) is called with the document in hand
StoreSave ==
    /\ store_call.pc = "start"
    /\ carts_file' = save_carts(store_call.carts)
    /\ store_call' = [store_call EXCEPT !.pc = "saved"]
    /\ UNCHANGED <<screen, last, accepted, inflight>>

\* load_carts() is called, on the file as it was found or after the save
StoreLoad ==
    /\ store_call.pc \in {"start", "saved"}
    /\ store_call' = [store_call EXCEPT
                        !.pc = IF @ = "saved" THEN "reloaded" ELSE "loaded",
                        !.loaded = load_carts(carts_file)]
    /\ UNCHANGED <<carts_file, screen, last, accepted, inflight>>

NextStore == StoreSave \/ StoreLoad

SpecStore == InitStore /\ [][NextStore]_vars

\* C16: load_carts after save_carts(carts) returns a mapping identical to
\* carts: the same keys, and under each key the same items in the same order
\* with every field and its value.
C16_SaveLoadRoundTrip ==
    store_call.pc = "reloaded"
        => /\ store_call.loaded = store_call.carts
           /\ DOMAIN store_call.loaded = DOMAIN store_call.carts
           /\ \A k \in DOMAIN store_call.carts :
                LET was == store_call.carts[k].items
                    is == store_call.loaded[k].items
                IN  /\ Len(is) = Len(was)
                    /\ \A i \in 1..Len(was) :
                        /\ DOMAIN is[i] = DOMAIN was[i]
                        /\ \A f \in DOMAIN was[i] : is[i][f] = was[i][f]

\* a document of both users, one cart of two different items, came back
C16_Witness ==
    /\ store_call.pc = "reloaded"
    /\ DOMAIN store_call.carts = {str(u) : u \in Users}
    /\ Len(store_call.carts[str(1)].items) = 2
    /\ store_call.carts[str(1)].items[1] # store_call.carts[str(1)].items[2]
    /\ store_call.carts[str(1)].items[2].qty = 2
    /\ store_call.loaded = store_call.carts

\* ------------------------------------------- handlers as event-loop tasks
\* callback_router as a coroutine: a handler gives up the event loop at its
\* awaits only.  Its first await is query.answer(); an add_item, a clear_cart
\* and an empty checkout then run their store calls with no await in
\* between, and a checkout of a cart with items awaits send_message between
\* its get_cart and its clear_cart.  The awaits of reply_text come after the
\* last store call of a handler and are not steps of their own.

\* the updates a task may be given (user, callback data)
ConcCommands(t) ==
    IF t = "t1"
    THEN {<<1, S("checkout")>>, <<1, cmd_mirror>>, <<1, S("view_cart")>>}
    ELSE {<<1, cmd_tire>>, <<2, cmd_mirror>>, <<2, S("clear_cart")>>,
          <<2, S("checkout")>>}

InFlight(task) == task.pc \in {"answering", "sending"}

\* an update reaches callback_router, which awaits query.answer(); the tasks
\* in flight at that time are noted in met, here and in theirs
Dispatch(t, u, data) ==
    /\ ~InFlight(inflight[t])
    /\ LET others == {o \in Tasks \ {t} : InFlight(inflight[o])}
       IN  inflight' = [o \in Tasks |->
                IF o = t
                THEN [pc |-> "answering", user |-> u, data |-> data, met |-> others]
                ELSE IF o \in others
                THEN [inflight[o] EXCEPT !.met = @ \cup {t}]
                ELSE inflight[o]]
    /\ UNCHANGED <<carts_file, screen, last, accepted, store_call>>

\* the handler of anything but a checkout runs from query.answer() to its end
RunHandler(t) ==
    /\ inflight[t].pc = "answering"
    /\ inflight[t].data # S("checkout")
    /\ \E r \in {route(carts_file, inflight[t].user, inflight[t].data, TRUE)} :
            Handled(inflight[t].user, "callback", inflight[t].data, r)
    /\ inflight' = [inflight EXCEPT ![t].pc = "done"]
    /\ UNCHANGED store_call

\* handle_checkout runs to its reply for an empty cart, or to its await of
\* send_message with the text built from the cart it read
CheckoutRead(t) ==
    /\ inflight[t].pc = "answering"
    /\ inflight[t].data = S("checkout")
    /\ \E p \in {checkout_read(carts_file, inflight[t].user)} :
            IF p.items = <<>>
            THEN /\ Handled(inflight[t].user, "callback", inflight[t].data,
                            Reply(p.file, Text("cart_is_empty", <<>>, <<>>)))
                 /\ inflight' = [inflight EXCEPT ![t].pc = "done"]
            ELSE /\ carts_file' = p.file
                 /\ inflight' = [inflight EXCEPT ![t] =
                        [pc |-> "sending", user |-> @.user, data |-> @.data,
                         met |-> @.met, text |-> p.text]]
                 /\ UNCHANGED <<screen, last, accepted>>
    /\ UNCHANGED store_call

\* send_message returns or raises, and handle_checkout runs to its end
CheckoutFinish(t, send_ok) ==
    /\ inflight[t].pc = "sending"
    /\ \E r \in {checkout_finish(carts_file, inflight[t].user, inflight[t].text, send_ok)} :
            Handled(inflight[t].user, "callback", inflight[t].data, r)
    /\ inflight' = [inflight EXCEPT ![t] =
            [pc |-> "done", user |-> @.user, data |-> @.data, met |-> @.met]]
    /\ UNCHANGED store_call

NextConcurrent ==
    \/ \E t \in Tasks : \E c \in ConcCommands(t) : Dispatch(t, c[1], c[2])
    \/ \E t \in Tasks : RunHandler(t)
    \/ \E t \in Tasks : CheckoutRead(t)
    \/ \E t \in Tasks, send_ok \in BOOLEAN : CheckoutFinish(t, send_ok)

SpecConcurrent == Init /\ [][NextConcurrent]_vars

\* a task that ran an add_item of six fields to its end
RanAdd(task) ==
    /\ task.pc = "done"
    /\ StartsWithBar(task.data, "add_item")
    /\ Len(task.data) = 6

\* two add_item commands of the same user were in flight together (each was
\* dispatched before the other one ran) and both handlers have run
ConcurrentAdds(t1, t2) ==
    /\ t1 # t2
    /\ RanAdd(inflight[t1]) /\ RanAdd(inflight[t2])
    /\ inflight[t1].user = inflight[t2].user
    /\ t2 \in inflight[t1].met /\ t1 \in inflight[t2].met

Contains(items, item) == \E i \in 1..Len(items) : items[i] = item

\* C11 as stated (a lost update): after two add_item commands of the same
\* user that were processed concurrently the cart holds only one of the two
\* items.
C11_ConcurrentAddsLoseOne ==
    \A t1, t2 \in Tasks :
        ConcurrentAdds(t1, t2)
            => LET items == ItemsOf(carts_file, inflight[t1].user)
               IN  ~(/\ Contains(items, ItemOfCommand(inflight[t1].data))
                     /\ Contains(items, ItemOfCommand(inflight[t2].data)))

\* C11 amended: two add_item commands of the same user that are processed
\* concurrently do not interleave between get_cart and update_cart: the cart
\* ends with both items, in the order the handlers ran, and every cart holds
\* all adds accepted since the user's last clear_cart or delivered checkout.
C11_ConcurrentAddsBothLand ==
    /\ \A t1, t2 \in Tasks :
        ConcurrentAdds(t1, t2)
            => LET items == ItemsOf(carts_file, inflight[t1].user)
                   n == Len(items)
                   pair == {ItemOfCommand(inflight[t1].data),
                            ItemOfCommand(inflight[t2].data)}
               IN  /\ n >= 2
                   /\ {items[n - 1], items[n]} = pair
    /\ \A u \in Users :
        ItemsOf(carts_file, u)
            = [i \in 1..Len(accepted[u]) |-> ItemOfCommand(accepted[u][i])]

\* the mirror and the tire were added by two handlers in flight together, the
\* one dispatched later ran first, and the cart holds both
C11_Witness ==
    /\ ConcurrentAdds("t1", "t2")
    /\ ItemsOf(carts_file, 1) = <<ItemOfCommand(cmd_tire), ItemOfCommand(cmd_mirror)>>
    /\ inflight["t1"].met = {"t2"}
    /\ last.data = cmd_mirror

\* the item lines of an order text
ItemLines(text) == SelectSeq(text.lines, LAMBDA line : line.kind = "item")

C19_UserIsolation ==
    [][\A t \in Tasks :
        inflight'[t] # inflight[t] /\ inflight[t].pc \in {"answering", "sending"}
        => \A v \in Users \ {inflight[t].user} :
                /\ ItemsOf(carts_file', v) = ItemsOf(carts_file, v)
                /\ HasEntry(carts_file', v) = HasEntry(carts_file, v)]_vars

\* user 2 cleared the cart while the checkout of user 1 awaits its delivery:
\* the cart of user 1 is as the checkout read it
C19_Witness ==
    /\ inflight["t1"].pc = "sending"
    /\ inflight["t2"].pc = "done"
    /\ inflight["t2"].user = 2
    /\ inflight["t2"].data = S("clear_cart")
    /\ "t1" \in inflight["t2"].met
    /\ last.user = 2
    /\ last.text.tag = "cart_cleared"
    /\ Len(ItemsOf(carts_file, 1)) = 2
    /\ Len(ItemLines(inflight["t1"].text)) = 2

====
